---- MODULE Spec2Model ----
(***************************************************************************)
(* State-machine model of the suiflash-bot protocol data collector         *)
(* (collectors.rs), routing strategy (strategies.rs) and request handler   *)
(* (main.rs).                                                              *)
(*                                                                         *)
(* Amounts and liquidities are small naturals; the default liquidities of  *)
(* the source (10_000_000_000, 5_000_000_000, 8_000_000_000 MIST) are      *)
(* written in units of 10^9 MIST.                                          *)
(***************************************************************************)
EXTENDS Integers, Sequences, FiniteSets, TLC

VARIABLES
    data_store,     \* collectors.rs:23  HashMap<Protocol, ProtocolData> behind the RwLock
    write_locked,   \* the task holding the RwLock write guard, or None
    read_locked,    \* the tasks holding a read guard while they clone the map
    c_pc,           \* per collector task: position inside start_background_collection / collect_all_data
    c_idx,          \* per collector task: index into the protocols array
    new_data,       \* per collector task: the local candidate map of collect_protocols_data
    c_fresh,        \* history: the entries fetched successfully in the current cycle
    c_attempted,    \* history: the protocols whose fetch was attempted in the current cycle
    c_outcome,      \* history: what the last update_data_store did
    c_result,       \* the value the last collect_all_data returned
    c_cycles,       \* number of cycles started so far
    c_started,      \* history, per task: the number of its running cycle in start order (0: none)
    c_limit,        \* the tasks that call collect_all_data, the cycles they may start, and
                    \* whether the run numbers the cycles
    api_values,     \* the numbers the protocol APIs report in this run (bounds the model)
    clock,          \* the system clock: whether it is steady in this run, and its last reading
    last_pub,       \* history: the candidate handed to the last effective swap
    pub_cycle,      \* history: the number, in start order, of the cycle that built the snapshot
    r_pc,           \* per reader: position inside get_all_protocol_data
    r_buf,          \* per reader: the clone being built
    r_snap,         \* history: last_pub when the reader got its read guard
    strategy,       \* config.strategy
    service_fee_bps, \* config.service_fee_bps
    q_pc,           \* request path: position inside the running operation
    q_op,           \* request path: the operation that is running or has finished
    request,        \* request path: the FlashLoanRequest
    q_forced,       \* request path: the protocol argument of override_protocol / calculate_cost
    q_seen,         \* history: the snapshot find_best_protocol read
    q_best,         \* request path: the result of find_best_protocol, or the protocol forced
    q_plan,         \* request path: the result of the operation
    q_response,     \* request path: the FlashLoanResponse of handle_flash_loan
    q_executed,     \* history: the calls of execute_flash_loan made for the request
    s_pc,           \* sources: position inside the fetch of one protocol
    s_idx,          \* sources: index of the protocol being fetched
    s_log,          \* history, per protocol: the attempts its fetch made, in order
    s_out,          \* sources, per protocol fetched: what fetch_*_data returned
    w_sent,         \* wire: the Protocol values serialised so far
    w_wire,         \* wire: their JSON texts not yet read
    w_recv          \* wire: the results of deserialising the texts read

collector_vars == <<c_pc, c_idx, new_data, c_fresh, c_attempted, c_outcome, c_result,
                    c_cycles, c_started>>
reader_vars == <<r_pc, r_buf, r_snap>>
request_vars == <<q_pc, q_op, request, q_forced, q_seen, q_best, q_plan, q_response,
                  q_executed>>
config_vars == <<strategy, service_fee_bps, c_limit, api_values>>
source_vars == <<s_pc, s_idx, s_log, s_out>>
wire_vars == <<w_sent, w_wire, w_recv>>
vars == <<data_store, write_locked, read_locked, config_vars, clock, collector_vars, last_pub,
          pub_cycle, reader_vars, request_vars, source_vars, wire_vars>>

----
\* Bounds of the model

MaxCycles == 2      \* refresh cycles the background task starts when it runs alone
MaxOverlapCycles == 2   \* calls of collect_all_data by the two overlapping tasks together
MaxFee == 1         \* fee_bps of a cached entry in the routing specification
MaxLiquidity == 2   \* available_liquidity of a cached entry in the routing specification
MaxAmount == 2      \* amount of a request in the routing specification
MaxFeeMultiple == 2 \* the largest fee rate of the fee arithmetic, in multiples of 100%
AmountStride == 4096    \* the fee arithmetic takes the amounts around the multiples of it
MaxWire == 4        \* Protocol values serialised in a run of the wire specification

----
\* Types of config.rs

None == "None"

Protocols == {"Navi", "Bucket", "Scallop"}

Discriminant(p) ==
    CASE p = "Navi" -> 0
      [] p = "Bucket" -> 1
      [] p = "Scallop" -> 2

ProtocolData(p, fee, liq, t) ==
    [protocol |-> p, fee_bps |-> fee, available_liquidity |-> liq, last_updated |-> t]

EmptyMap == [p \in {} |-> None]

Insert(map, p, data) ==
    [k \in (DOMAIN map) \cup {p} |-> IF k = p THEN data ELSE map[k]]

----
\* ProtocolDataCollector (collectors.rs)

Collectors == {"bg", "ext"}
Readers == {"r1"}

\* tokio::sync::RwLock: a read guard is granted while no write guard is held
CanRead(writer) == writer = None

CanWriteNoReaderCheck(readers, writer) == writer = None

\* tokio::sync::RwLock: the write guard is granted while no guard is held
CanWrite(readers, writer) == readers = {} /\ writer = None

Some(v) == [some |-> TRUE, value |-> v]
NoData == [some |-> FALSE]

get_protocol_data(store, p) == IF p \in DOMAIN store THEN Some(store[p]) ELSE NoData

StoreAfterGetRemove(store, p) == [k \in DOMAIN store \ {p} |-> store[k]]

\* get_protocol_data takes a read guard and clones the entry: the map it leaves
StoreAfterGet(store, p) == store

\* the (fee_bps, liquidity) each source falls back to
DefaultData(p) ==
    CASE p = "Navi" -> [fee |-> 8, liq |-> 10]
      [] p = "Bucket" -> [fee |-> 5, liq |-> 5]
      [] p = "Scallop" -> [fee |-> 9, liq |-> 8]

\* what the HTTP request of a fetch_*_api_data can do
\* a field that is absent from the payload, or is not an unsigned number
Missing == -1

ApiPayloads(values) ==
    {[fee |-> Missing, liq |-> Missing]} \cup {[fee |-> v, liq |-> v] : v \in values}
ApiResponses(values) ==
    {[kind |-> "send_err"], [kind |-> "parse_err"]}
        \cup {[kind |-> "ok", payload |-> pl] : pl \in ApiPayloads(values)}

\* what SystemTime::now() reads, in seconds since the epoch: the clock can be
\* set back, also to before the epoch
ClockReadings == {-1, 0, 1}

EarliestReading == CHOOSE t \in ClockReadings : \A u \in ClockReadings : t <= u
LatestReading == CHOOSE t \in ClockReadings : \A u \in ClockReadings : t >= u

\* the readings SystemTime::now() can return next: a steady clock returns no
\* less than its last reading
ClockReads(clk) ==
    IF clk.steady THEN {t \in ClockReadings : t >= clk.last} ELSE ClockReadings

\* the clock after a reading of t
ClockAfter(clk, t) == IF clk.steady THEN [clk EXCEPT !.last = t] ELSE clk

Ok(v) == [ok |-> TRUE, value |-> v]
Err == [ok |-> FALSE]

\* as_u64().unwrap_or(default) on both fields of the payload
ParsePayload(p, pl) ==
    [fee |-> IF pl.fee = Missing THEN DefaultData(p).fee ELSE pl.fee,
     liq |-> IF pl.liq = Missing THEN DefaultData(p).liq ELSE pl.liq]

fetch_navi_api_data(api) ==
    IF api.kind = "ok" THEN Ok(ParsePayload("Navi", api.payload)) ELSE Err

fetch_navi_onchain_data(id_valid) ==
    IF id_valid THEN Ok(DefaultData("Navi")) ELSE Err

fetch_navi_data(api, id_valid) ==
    IF fetch_navi_api_data(api).ok
    THEN fetch_navi_api_data(api)
    ELSE fetch_navi_onchain_data(id_valid)

\* Bucket and Scallop: a failed send is answered with the defaults inside the
\* API function; a body that is not JSON is an error of the API function
fetch_api_data_with_default(p, api) ==
    CASE api.kind = "ok" -> Ok(ParsePayload(p, api.payload))
      [] api.kind = "send_err" -> Ok(DefaultData(p))
      [] api.kind = "parse_err" -> Err

fetch_onchain_default(p) == Ok(DefaultData(p))

fetch_with_fallback(p, api) ==
    IF fetch_api_data_with_default(p, api).ok
    THEN fetch_api_data_with_default(p, api)
    ELSE fetch_onchain_default(p)

fetch_protocol_data_tagged_navi(p, api, id_valid, t) ==
    LET src == IF p = "Navi" THEN fetch_navi_data(api, id_valid)
               ELSE fetch_with_fallback(p, api)
    IN  IF ~src.ok THEN Err
        ELSE IF t < 0 THEN Err
        ELSE Ok(ProtocolData("Navi", src.value.fee, src.value.liq, t))

\* fetch_protocol_data: the source's pair, stamped with the clock; the clock
\* read fails when the system clock is before the epoch (t < 0)
fetch_protocol_data(p, api, id_valid, t) ==
    LET src == IF p = "Navi" THEN fetch_navi_data(api, id_valid)
               ELSE fetch_with_fallback(p, api)
    IN  IF ~src.ok THEN Err
        ELSE IF t < 0 THEN Err
        ELSE Ok(ProtocolData(p, src.value.fee, src.value.liq, t))

\* the protocols array of collect_all_data
ProtocolList == <<"Navi", "Bucket", "Scallop">>

handle_collection_failure_omit(store, p, candidate) == candidate

handle_collection_failure_restamp(store, p, candidate) ==
    IF get_protocol_data(store, p).some
    THEN Insert(candidate, p, [get_protocol_data(store, p).value EXCEPT !.last_updated = 0])
    ELSE candidate

\* handle_collection_failure: the old entry of the protocol, when there is one,
\* goes into the candidate
handle_collection_failure(store, p, candidate) ==
    IF get_protocol_data(store, p).some
    THEN Insert(candidate, p, get_protocol_data(store, p).value)
    ELSE candidate

\* the loop of collect_protocols_data moves on to the next protocol after a failure
NextIndexAfterFailureStop(i) == Len(ProtocolList) + 1

NextIndexAfterFailure(i) == i + 1

ShouldPublishAlways(candidate) == TRUE

\* update_data_store replaces the map unless the candidate is empty
ShouldPublish(candidate) == candidate # EmptyMap

\* the value collect_all_data returns after update_data_store
collect_all_data_result(candidate) == "Ok"

CanStartCycleSpawned(c, tasks, pcs) == pcs[c] = "idle"

\* a task calls collect_all_data and awaits it: the background loop reaches its
\* next ticker.tick() only after the cycle it started has returned
CanStartCycle(c, tasks, pcs) == c \in tasks /\ pcs[c] = "idle"

AfterCollectStopOnEmpty(outcome) == IF outcome = "noop" THEN "stopped" ELSE "idle"

\* where a task goes when collect_all_data has returned: the loop of
\* start_background_collection logs an Err and goes back to ticker.tick()
AfterCollect(outcome) == "idle"

\* history: the number of a cycle in start order, in the runs that number them
CycleNumber(limit, n) == IF limit.numbered THEN n ELSE 0

StartCycleHoldingWrite(c) ==
    /\ CanStartCycle(c, c_limit.tasks, c_pc)
    /\ c_cycles < c_limit.total
    /\ CanWrite(read_locked, write_locked)
    /\ write_locked' = c
    /\ c_pc' = [c_pc EXCEPT ![c] = "fetch"]
    /\ c_idx' = [c_idx EXCEPT ![c] = 1]
    /\ new_data' = [new_data EXCEPT ![c] = EmptyMap]
    /\ c_fresh' = [c_fresh EXCEPT ![c] = EmptyMap]
    /\ c_attempted' = [c_attempted EXCEPT ![c] = {}]
    /\ c_cycles' = c_cycles + 1
    /\ c_started' = [c_started EXCEPT ![c] = CycleNumber(c_limit, c_cycles + 1)]
    /\ UNCHANGED <<data_store, read_locked, c_outcome, c_result, last_pub, pub_cycle,
                   reader_vars, request_vars, config_vars, clock, source_vars, wire_vars>>

\* ticker.tick() fires, or a caller enters collect_all_data
StartCycle(c) ==
    /\ CanStartCycle(c, c_limit.tasks, c_pc)
    /\ c_cycles < c_limit.total
    /\ c_pc' = [c_pc EXCEPT ![c] = "fetch"]
    /\ c_idx' = [c_idx EXCEPT ![c] = 1]
    /\ new_data' = [new_data EXCEPT ![c] = EmptyMap]
    /\ c_fresh' = [c_fresh EXCEPT ![c] = EmptyMap]
    /\ c_attempted' = [c_attempted EXCEPT ![c] = {}]
    /\ c_cycles' = c_cycles + 1
    /\ c_started' = [c_started EXCEPT ![c] = CycleNumber(c_limit, c_cycles + 1)]
    /\ UNCHANGED <<data_store, write_locked, read_locked, c_outcome, c_result, last_pub,
                   pub_cycle, reader_vars, request_vars, config_vars, clock, source_vars,
                   wire_vars>>

\* one iteration of the loop of collect_protocols_data whose fetch succeeds
FetchOk(c) ==
    /\ c_pc[c] = "fetch"
    /\ c_idx[c] <= Len(ProtocolList)
    /\ \E api \in ApiResponses(api_values), id_valid \in BOOLEAN, t \in ClockReads(clock) :
         LET p == ProtocolList[c_idx[c]]
             res == fetch_protocol_data(p, api, id_valid, t)
         IN  /\ res.ok
             /\ clock' = ClockAfter(clock, t)
             /\ new_data' = [new_data EXCEPT ![c] = Insert(@, p, res.value)]
             /\ c_fresh' = [c_fresh EXCEPT ![c] = Insert(@, p, res.value)]
             /\ c_attempted' = [c_attempted EXCEPT ![c] = @ \cup {p}]
    /\ c_idx' = [c_idx EXCEPT ![c] = @ + 1]
    /\ UNCHANGED <<data_store, write_locked, read_locked, c_pc, c_outcome, c_result,
                   c_cycles, c_started, last_pub, pub_cycle, reader_vars, request_vars,
                   config_vars, source_vars, wire_vars>>

\* one iteration of the loop of collect_protocols_data whose fetch fails:
\* handle_collection_failure reads the store under a read guard
FetchErr(c) ==
    /\ c_pc[c] = "fetch"
    /\ c_idx[c] <= Len(ProtocolList)
    /\ CanRead(write_locked)
    /\ \E api \in ApiResponses(api_values), id_valid \in BOOLEAN, t \in ClockReads(clock) :
         LET p == ProtocolList[c_idx[c]]
             res == fetch_protocol_data(p, api, id_valid, t)
         IN  /\ ~res.ok
             /\ clock' = ClockAfter(clock, t)
             /\ new_data' = [new_data EXCEPT ![c] = handle_collection_failure(data_store, p, @)]
             /\ data_store' = StoreAfterGet(data_store, p)
             /\ c_attempted' = [c_attempted EXCEPT ![c] = @ \cup {p}]
    /\ c_idx' = [c_idx EXCEPT ![c] = NextIndexAfterFailure(@)]
    /\ UNCHANGED <<write_locked, read_locked, c_pc, c_fresh, c_outcome, c_result,
                   c_cycles, c_started, last_pub, pub_cycle, reader_vars, request_vars,
                   config_vars, source_vars, wire_vars>>

\* collect_protocols_data returns new_data; collect_all_data calls update_data_store
EndFetch(c) ==
    /\ c_pc[c] = "fetch"
    /\ c_idx[c] > Len(ProtocolList)
    /\ c_pc' = [c_pc EXCEPT ![c] = "update"]
    /\ UNCHANGED <<data_store, write_locked, read_locked, c_idx, new_data, c_fresh,
                   c_attempted, c_outcome, c_result, c_cycles, c_started, last_pub,
                   pub_cycle, reader_vars, request_vars, config_vars, clock, source_vars,
                   wire_vars>>

\* collect_all_data returns: its locals (the moved candidate, the loop index) are gone
ReturnFromCollect(c, outcome) ==
    /\ c_pc' = [c_pc EXCEPT ![c] = AfterCollect(outcome)]
    /\ c_started' = [c_started EXCEPT ![c] = 0]
    /\ c_idx' = [c_idx EXCEPT ![c] = 1]
    /\ new_data' = [new_data EXCEPT ![c] = EmptyMap]
    /\ c_fresh' = [c_fresh EXCEPT ![c] = EmptyMap]
    /\ c_attempted' = [c_attempted EXCEPT ![c] = {}]
    /\ c_outcome' = [c_outcome EXCEPT ![c] = outcome]
    /\ c_result' = [c_result EXCEPT ![c] = collect_all_data_result(new_data[c])]

\* update_data_store with an empty candidate: a warning, then collect_all_data returns
UpdateNoop(c) ==
    /\ c_pc[c] = "update"
    /\ ~ShouldPublish(new_data[c])
    /\ ReturnFromCollect(c, "noop")
    /\ UNCHANGED <<data_store, write_locked, read_locked, c_cycles, last_pub, pub_cycle,
                   reader_vars, request_vars, config_vars, clock, source_vars, wire_vars>>

\* update_data_store: self.data_store.write().await is granted
AcquireWrite(c) ==
    /\ c_pc[c] = "update"
    /\ ShouldPublish(new_data[c])
    /\ CanWrite(read_locked, write_locked)
    /\ write_locked' = c
    /\ c_pc' = [c_pc EXCEPT ![c] = "writing"]
    /\ UNCHANGED <<data_store, read_locked, c_idx, new_data, c_fresh, c_attempted,
                   c_outcome, c_result, c_cycles, c_started, last_pub, pub_cycle,
                   reader_vars, request_vars, config_vars, clock, source_vars, wire_vars>>

\* update_data_store: *guard = new_data, the guard is dropped, collect_all_data returns
Swap(c) ==
    /\ c_pc[c] = "writing"
    /\ write_locked = c
    /\ data_store' = new_data[c]
    /\ last_pub' = new_data[c]
    /\ pub_cycle' = c_started[c]
    /\ write_locked' = None
    /\ ReturnFromCollect(c, "published")
    /\ UNCHANGED <<read_locked, c_cycles, reader_vars, request_vars, config_vars, clock,
                   source_vars, wire_vars>>

\* Protocol on the wire (config.rs): #[derive(Serialize, Deserialize)] on an
\* enum of unit variants, through serde_json

to_string_repr(p) ==
    CASE p = "Navi" -> "0"
      [] p = "Bucket" -> "1"
      [] p = "Scallop" -> "2"

\* serde_json::to_string(&protocol): the name of the variant as a JSON string
to_string(p) ==
    CASE p = "Navi" -> "\"Navi\""
      [] p = "Bucket" -> "\"Bucket\""
      [] p = "Scallop" -> "\"Scallop\""

\* serde_json::from_str::<Protocol>(json): a JSON string that names a variant
\* yields the variant, every other text is an error
from_str(json) ==
    CASE json = "\"Navi\"" -> Ok("Navi")
      [] json = "\"Bucket\"" -> Ok("Bucket")
      [] json = "\"Scallop\"" -> Ok("Scallop")
      [] OTHER -> Err

\* a Protocol value is serialised
Serialize ==
    /\ Len(w_sent) < MaxWire
    /\ \E p \in Protocols :
         /\ w_sent' = Append(w_sent, p)
         /\ w_wire' = Append(w_wire, to_string(p))
    /\ UNCHANGED <<data_store, write_locked, read_locked, config_vars, collector_vars,
                   last_pub, pub_cycle, reader_vars, request_vars, clock, source_vars,
                   w_recv>>

\* the oldest text on the wire is deserialised
Deserialize ==
    /\ w_wire # <<>>
    /\ w_recv' = Append(w_recv, from_str(Head(w_wire)))
    /\ w_wire' = Tail(w_wire)
    /\ UNCHANGED <<data_store, write_locked, read_locked, config_vars, collector_vars,
                   last_pub, pub_cycle, reader_vars, request_vars, clock, source_vars,
                   w_sent>>

\* The fetch of one protocol, stage by stage (fetch_navi_data,
\* fetch_bucket_data, fetch_scallop_data), for the protocols of one cycle

\* an entry of the log: the function called, what its request met, what it returned
Attempt(stage, response, res) == [stage |-> stage, response |-> response, ok |-> res.ok]

\* fetch_navi_api_data, fetch_bucket_api_data, fetch_scallop_api_data
fetch_api_data(p, api) ==
    IF p = "Navi" THEN fetch_navi_api_data(api) ELSE fetch_api_data_with_default(p, api)

\* fetch_navi_onchain_data, fetch_bucket_onchain_data, fetch_scallop_onchain_data
fetch_onchain_data(p, id_valid) ==
    IF p = "Navi" THEN fetch_navi_onchain_data(id_valid) ELSE fetch_onchain_default(p)

\* collect_protocols_data reaches the next protocol and fetch_*_data is entered
SourceCall ==
    /\ s_pc = "idle"
    /\ s_idx <= Len(ProtocolList)
    /\ s_pc' = "api"
    /\ s_log' = Insert(s_log, ProtocolList[s_idx], <<>>)
    /\ UNCHANGED <<data_store, write_locked, read_locked, config_vars, collector_vars,
                   last_pub, pub_cycle, reader_vars, request_vars, clock, s_idx, s_out,
                   wire_vars>>

\* fetch_*_data calls the API function of the protocol and matches on its result
SourceApi ==
    /\ s_pc = "api"
    /\ \E api \in ApiResponses(api_values) :
         LET p == ProtocolList[s_idx]
             res == fetch_api_data(p, api)
         IN  /\ s_log' = [s_log EXCEPT ![p] = Append(@, Attempt("api", api.kind, res))]
             /\ IF res.ok
                THEN s_out' = Insert(s_out, p, res) /\ s_pc' = "return"
                ELSE s_out' = s_out /\ s_pc' = "onchain"
    /\ UNCHANGED <<data_store, write_locked, read_locked, config_vars, collector_vars,
                   last_pub, pub_cycle, reader_vars, request_vars, clock, s_idx, wire_vars>>

\* the Err arm of fetch_*_data: the on-chain function of the protocol, whose
\* result is the result of fetch_*_data
SourceOnchain ==
    /\ s_pc = "onchain"
    /\ \E id_valid \in BOOLEAN :
         LET p == ProtocolList[s_idx]
             res == fetch_onchain_data(p, id_valid)
         IN  /\ s_log' = [s_log EXCEPT ![p] =
                             Append(@, Attempt("onchain",
                                               IF res.ok THEN "ok" ELSE "invalid_id", res))]
             /\ s_out' = Insert(s_out, p, res)
    /\ s_pc' = "return"
    /\ UNCHANGED <<data_store, write_locked, read_locked, config_vars, collector_vars,
                   last_pub, pub_cycle, reader_vars, request_vars, clock, s_idx, wire_vars>>

\* fetch_*_data returns and the loop moves to the next protocol
SourceReturn ==
    /\ s_pc = "return"
    /\ s_pc' = "idle"
    /\ s_idx' = s_idx + 1
    /\ UNCHANGED <<data_store, write_locked, read_locked, config_vars, collector_vars,
                   last_pub, pub_cycle, reader_vars, request_vars, clock, s_log, s_out,
                   wire_vars>>

\* collector_handle.abort(): the task is dropped at the await it is suspended
\* at (the tick, a fetch, a read guard, the write guard); between the grant of
\* the write guard and the assignment there is no await. Its locals are gone.
Abort(c) ==
    /\ c_pc[c] \in {"idle", "fetch", "update"}
    /\ c_pc' = [c_pc EXCEPT ![c] = "aborted"]
    /\ c_idx' = [c_idx EXCEPT ![c] = 1]
    /\ new_data' = [new_data EXCEPT ![c] = EmptyMap]
    /\ UNCHANGED <<data_store, write_locked, read_locked, c_fresh, c_attempted, c_outcome,
                   c_result, c_cycles, c_started, last_pub, pub_cycle, reader_vars,
                   request_vars, config_vars, clock, source_vars, wire_vars>>

\* get_all_protocol_data: self.data_store.read().await is granted
ReadAcquire(r) ==
    /\ r_pc[r] = "idle"
    /\ CanRead(write_locked)
    /\ read_locked' = read_locked \cup {r}
    /\ r_pc' = [r_pc EXCEPT ![r] = "cloning"]
    /\ r_buf' = [r_buf EXCEPT ![r] = EmptyMap]
    /\ r_snap' = [r_snap EXCEPT ![r] = last_pub]
    /\ UNCHANGED <<data_store, write_locked, collector_vars, last_pub, pub_cycle,
                   request_vars, config_vars, clock, source_vars, wire_vars>>

\* get_all_protocol_data: clone() copies one more entry of the map
ReadCopy(r) ==
    /\ r_pc[r] = "cloning"
    /\ \E p \in (DOMAIN data_store) \ (DOMAIN r_buf[r]) :
         r_buf' = [r_buf EXCEPT ![r] = Insert(@, p, data_store[p])]
    /\ UNCHANGED <<data_store, write_locked, read_locked, collector_vars, last_pub,
                   pub_cycle, r_pc, r_snap, request_vars, config_vars, clock, source_vars,
                   wire_vars>>

CloneComplete(r) == (DOMAIN data_store) \subseteq (DOMAIN r_buf[r])

\* get_all_protocol_data: the clone is complete, the guard is dropped, the map is returned
ReadRelease(r) ==
    /\ r_pc[r] = "cloning"
    /\ CloneComplete(r)
    /\ read_locked' = read_locked \ {r}
    /\ r_pc' = [r_pc EXCEPT ![r] = "idle"]
    /\ r_buf' = [r_buf EXCEPT ![r] = EmptyMap]
    /\ r_snap' = [r_snap EXCEPT ![r] = EmptyMap]
    /\ UNCHANGED <<data_store, write_locked, collector_vars, last_pub, pub_cycle,
                   request_vars, config_vars, clock, source_vars, wire_vars>>

----
\* FlashLoanStrategy (strategies.rs)

RouteModes == {"Explicit", "BestCost", "BestLiquidity"}

\* the values of config.strategy: the two the code names, and one it does not
Strategies == {"cheapest", "highest_liquidity", "balanced"}

NoRequest == [amount |-> 0, route_mode |-> "BestCost", explicit_protocol |-> None]
NoResult == [ok |-> FALSE, kind |-> "none"]
Failure(kind) == [ok |-> FALSE, kind |-> kind]

\* the orders in which iterating a HashMap with these keys can yield them
IterationOrders(keys) ==
    {order \in [1..Cardinality(keys) -> keys] :
        \A i, j \in 1..Cardinality(keys) : i # j => order[i] # order[j]}

ViableProtocolsAll(snapshot, order, amount) == order

\* find_best_protocol: the entries with sufficient liquidity, in iteration order
ViableProtocols(snapshot, order, amount) ==
    SelectSeq(order, LAMBDA p : snapshot[p].available_liquidity >= amount)

find_cheapest_protocol_max(snapshot, viable) ==
    IF Len(viable) = 0 THEN "Navi"
    ELSE viable[CHOOSE i \in 1..Len(viable) :
            \A j \in 1..Len(viable) :
                /\ snapshot[viable[j]].fee_bps <= snapshot[viable[i]].fee_bps
                /\ j > i => snapshot[viable[j]].fee_bps < snapshot[viable[i]].fee_bps]

\* Iterator::min_by_key: the first of the elements with the least fee_bps
find_cheapest_protocol(snapshot, viable) ==
    IF Len(viable) = 0 THEN "Navi"
    ELSE viable[CHOOSE i \in 1..Len(viable) :
            \A j \in 1..Len(viable) :
                /\ snapshot[viable[j]].fee_bps >= snapshot[viable[i]].fee_bps
                /\ j < i => snapshot[viable[j]].fee_bps > snapshot[viable[i]].fee_bps]

find_highest_liquidity_protocol_min(snapshot, viable) ==
    IF Len(viable) = 0 THEN "Navi"
    ELSE viable[CHOOSE i \in 1..Len(viable) :
            \A j \in 1..Len(viable) :
                /\ snapshot[viable[j]].available_liquidity >= snapshot[viable[i]].available_liquidity
                /\ j < i => snapshot[viable[j]].available_liquidity
                                > snapshot[viable[i]].available_liquidity]

\* Iterator::max_by_key: the last of the elements with the greatest available_liquidity
find_highest_liquidity_protocol(snapshot, viable) ==
    IF Len(viable) = 0 THEN "Navi"
    ELSE viable[CHOOSE i \in 1..Len(viable) :
            \A j \in 1..Len(viable) :
                /\ snapshot[viable[j]].available_liquidity <= snapshot[viable[i]].available_liquidity
                /\ j > i => snapshot[viable[j]].available_liquidity
                                < snapshot[viable[i]].available_liquidity]

find_best_protocol_strict(snapshot, order, req, strat) ==
    LET viable == ViableProtocols(snapshot, order, req.amount)
    IN  IF Len(viable) = 0 THEN Failure("no_sufficient_liquidity")
        ELSE CASE strat = "cheapest" -> Ok(find_cheapest_protocol(snapshot, viable))
               [] strat = "highest_liquidity" ->
                     Ok(find_highest_liquidity_protocol(snapshot, viable))
               [] OTHER -> Failure("unknown_strategy")

\* find_best_protocol on the snapshot get_all_protocol_data returned
find_best_protocol(snapshot, order, req, strat) ==
    LET viable == ViableProtocols(snapshot, order, req.amount)
    IN  IF Len(viable) = 0 THEN Failure("no_sufficient_liquidity")
        ELSE Ok(CASE strat = "cheapest" -> find_cheapest_protocol(snapshot, viable)
                  [] strat = "highest_liquidity" ->
                        find_highest_liquidity_protocol(snapshot, viable)
                  [] OTHER -> find_cheapest_protocol(snapshot, viable))

\* u64 and the basis-point divisor; the width of u64 is scaled down to 15 bits
\* so that the u128 product stays inside the integers the model checker has
U64Modulus == 32768
BpsDenominator == 10000

\* the default of config.service_fee_bps
DefaultServiceFeeBps == 40

calculate_cost_requires_liquidity(entry, req) ==
    IF ~entry.some THEN {Failure("no_data")}
    ELSE IF entry.value.available_liquidity < req.amount
    THEN {Failure("insufficient_liquidity")}
    ELSE LET protocol_fee == (req.amount * entry.value.fee_bps) \div BpsDenominator
             narrowed == protocol_fee % U64Modulus
             total == req.amount + narrowed
         IN  IF total < U64Modulus THEN {Ok(total)}
             ELSE {Failure("panic"), Ok(total % U64Modulus)}

calculate_cost_narrow_product(entry, req) ==
    IF ~entry.some THEN {Failure("no_data")}
    ELSE LET protocol_fee ==
                 ((req.amount * entry.value.fee_bps) % U64Modulus) \div BpsDenominator
             total == req.amount + protocol_fee
         IN  IF total < U64Modulus THEN {Ok(total)}
             ELSE {Failure("panic"), Ok(total % U64Modulus)}

\* calculate_cost on the entry get_protocol_data returned: the outcomes of
\*   request.amount + ((amount as u128 * fee_bps as u128) / 10_000) as u64
\* the cast truncates; the addition panics on overflow in a build with
\* overflow checks and wraps in one without
calculate_cost(entry, req) ==
    IF ~entry.some THEN {Failure("no_data")}
    ELSE LET protocol_fee == (req.amount * entry.value.fee_bps) \div BpsDenominator
             narrowed == protocol_fee % U64Modulus
             total == req.amount + narrowed
         IN  IF total < U64Modulus THEN {Ok(total)}
             ELSE {Failure("panic"), Ok(total % U64Modulus)}

\* validate_execution_plan: a zero amount and a total cost that does not exceed
\* the amount are rejected
validate_execution_plan(plan) ==
    IF plan.amount = 0 THEN Failure("zero_amount")
    ELSE IF plan.total_cost <= plan.amount THEN Failure("missing_fees")
    ELSE Ok(TRUE)

\* execute_flash_loan: the simulated execution validates the plan and returns a digest
execute_flash_loan(plan) == validate_execution_plan(plan)

FlashLoanResponse(p, protocol_fee, service_fee, total_fee) ==
    [ok |-> TRUE, protocol_used |-> p, protocol_fee |-> protocol_fee,
     service_fee |-> service_fee, total_fee |-> total_fee]

\* handle_flash_loan after the plan is built: the outcomes of
\*   protocol_fee = total_cost - amount
\*   service_fee = u64::try_from(u128(amount) * u128(service_fee_bps) / 10_000)
\*   total_fee = protocol_fee + service_fee
\* an error of the plan is answered with BAD_REQUEST, one of the execution or of
\* the conversion with INTERNAL_SERVER_ERROR; the last addition panics on
\* overflow in a build with overflow checks and wraps in one without
handle_flash_loan_response(plan, service_bps) ==
    IF ~plan.ok THEN {Failure("BAD_REQUEST")}
    ELSE IF ~execute_flash_loan(plan).ok THEN {Failure("INTERNAL_SERVER_ERROR")}
    ELSE LET protocol_fee == plan.total_cost - plan.amount
             service_fee == (plan.amount * service_bps) \div BpsDenominator
             total_fee == protocol_fee + service_fee
         IN  IF service_fee >= U64Modulus THEN {Failure("INTERNAL_SERVER_ERROR")}
             ELSE IF total_fee < U64Modulus
             THEN {FlashLoanResponse(plan.protocol, protocol_fee, service_fee, total_fee)}
             ELSE {Failure("panic"),
                   FlashLoanResponse(plan.protocol, protocol_fee, service_fee,
                                     total_fee % U64Modulus)}

\* the operation returns its result to the caller
ReturnResult ==
    /\ q_pc = "done"
    /\ q_pc' = "idle"
    /\ q_op' = None
    /\ request' = NoRequest
    /\ q_forced' = None
    /\ q_seen' = EmptyMap
    /\ q_best' = NoResult
    /\ q_plan' = NoResult
    /\ q_response' = NoResult
    /\ q_executed' = 0
    /\ UNCHANGED <<data_store, write_locked, read_locked, config_vars, collector_vars,
                   last_pub, pub_cycle, reader_vars, clock, source_vars, wire_vars>>

ExecutionPlan(p, req, total_cost) ==
    [ok |-> TRUE, protocol |-> p, amount |-> req.amount, total_cost |-> total_cost]

\* the operations of the strategy, and the handler of POST /flashloan
StrategyOps == {"find_best_protocol", "generate_execution_plan", "override_protocol"}
CostOps == {"calculate_cost", "handle_flash_loan"}

\* a caller invokes an operation: find_best_protocol and generate_execution_plan
\* take the request, override_protocol and calculate_cost also a protocol, and
\* handle_flash_loan forces the protocol the request names, if it names one
CallWith(amounts, modes, ops) ==
    /\ q_pc = "idle"
    /\ \E amount \in amounts, mode \in modes, explicit \in Protocols \cup {None} :
         request' = [amount |-> amount, route_mode |-> mode, explicit_protocol |-> explicit]
    /\ q_op' \in ops
    /\ CASE q_op' \in {"find_best_protocol", "generate_execution_plan"} ->
                q_forced' = None /\ q_pc' = "select" /\ q_best' = NoResult
         [] q_op' = "override_protocol" ->
                q_forced' \in Protocols /\ q_pc' = "select" /\ q_best' = NoResult
         [] q_op' = "calculate_cost" ->
                q_forced' \in Protocols /\ q_pc' = "cost" /\ q_best' = Ok(q_forced')
         [] q_op' = "handle_flash_loan" ->
                q_forced' = request'.explicit_protocol /\ q_pc' = "select"
                    /\ q_best' = NoResult
    /\ q_seen' = EmptyMap
    /\ q_plan' = NoResult
    /\ q_response' = NoResult
    /\ q_executed' = 0
    /\ UNCHANGED <<data_store, write_locked, read_locked, config_vars, collector_vars,
                   last_pub, pub_cycle, reader_vars, clock, source_vars, wire_vars>>

Call == CallWith(0..MaxAmount, RouteModes, StrategyOps)

\* where an operation goes on when the plan is built or has failed: the handler
\* executes the plan and builds the response, the others return
AfterPlan(op) == IF op = "handle_flash_loan" THEN "execute" ELSE "done"

AfterSelectionAlwaysCost(op, best) ==
    IF op = "find_best_protocol" THEN "done" ELSE "cost"

\* where the operation goes when find_best_protocol has returned: the ? of
\* generate_execution_plan returns the error at once, calculate_cost is called
\* only with a protocol
AfterSelection(op, best) ==
    IF op = "find_best_protocol" THEN "done"
    ELSE IF best.ok THEN "cost"
    ELSE AfterPlan(op)

\* find_best_protocol, called directly or as the first step of
\* generate_execution_plan (which the handler calls for a request without
\* explicit_protocol)
FindBestProtocol ==
    /\ q_pc = "select"
    /\ \/ q_op \in {"find_best_protocol", "generate_execution_plan"}
       \/ q_op = "handle_flash_loan" /\ q_forced = None
    /\ CanRead(write_locked)
    /\ \E order \in IterationOrders(DOMAIN data_store) :
         q_best' = find_best_protocol(data_store, order, request, strategy)
    /\ q_seen' = data_store
    /\ q_pc' = AfterSelection(q_op, q_best')
    /\ q_plan' = IF q_op # "find_best_protocol" /\ ~q_best'.ok THEN q_best' ELSE q_plan
    /\ UNCHANGED <<data_store, write_locked, read_locked, config_vars, collector_vars,
                   last_pub, pub_cycle, reader_vars, q_op, request, q_forced, q_response,
                   q_executed, clock, source_vars, wire_vars>>

InsufficientLiquidityNever(data, amount) == FALSE

\* override_protocol: data.available_liquidity < request.amount
InsufficientLiquidity(data, amount) == data.available_liquidity < amount

\* override_protocol: the entry of the forced protocol and its liquidity check
OverrideCheck ==
    /\ q_pc = "select"
    /\ \/ q_op = "override_protocol"
       \/ q_op = "handle_flash_loan" /\ q_forced # None
    /\ CanRead(write_locked)
    /\ q_seen' = data_store
    /\ LET data == get_protocol_data(data_store, q_forced)
       IN  IF ~data.some
           THEN q_pc' = AfterPlan(q_op) /\ q_plan' = Failure("no_data") /\ q_best' = q_best
           ELSE IF InsufficientLiquidity(data.value, request.amount)
           THEN q_pc' = AfterPlan(q_op) /\ q_plan' = Failure("insufficient_liquidity")
                /\ q_best' = q_best
           ELSE q_pc' = "cost" /\ q_plan' = q_plan /\ q_best' = Ok(q_forced)
    /\ data_store' = StoreAfterGet(data_store, q_forced)
    /\ UNCHANGED <<write_locked, read_locked, config_vars, collector_vars,
                   last_pub, pub_cycle, reader_vars, q_op, request, q_forced, q_response,
                   q_executed, clock, source_vars, wire_vars>>

\* calculate_cost for the chosen protocol, then the plan is built and returned
CalculateCost ==
    /\ q_pc = "cost"
    /\ CanRead(write_locked)
    /\ \E res \in calculate_cost(get_protocol_data(data_store, q_best.value), request) :
         q_plan' = IF res.ok THEN ExecutionPlan(q_best.value, request, res.value) ELSE res
    /\ q_seen' = IF q_op = "calculate_cost" THEN data_store ELSE q_seen
    /\ q_pc' = AfterPlan(q_op)
    /\ data_store' = StoreAfterGet(data_store, q_best.value)
    /\ UNCHANGED <<write_locked, read_locked, config_vars, collector_vars,
                   last_pub, pub_cycle, reader_vars, q_op, request, q_forced, q_best,
                   q_response, q_executed, clock, source_vars, wire_vars>>

ExecutionAttemptsRetry(plan) ==
    IF ~plan.ok THEN 0 ELSE IF execute_flash_loan(plan).ok THEN 1 ELSE 2

\* handle_flash_loan: an error of the plan returns before the executor is
\* called; a plan is handed to execute_flash_loan once, and its error returns
ExecutionAttempts(plan) == IF plan.ok THEN 1 ELSE 0

\* handle_flash_loan: the plan is executed and the response is built
HandleFlashLoanRespond ==
    /\ q_pc = "execute"
    /\ q_executed' = ExecutionAttempts(q_plan)
    /\ q_response' \in handle_flash_loan_response(q_plan, service_fee_bps)
    /\ q_pc' = "done"
    /\ UNCHANGED <<data_store, write_locked, read_locked, config_vars, collector_vars,
                   last_pub, pub_cycle, reader_vars, q_op, request, q_forced, q_seen,
                   q_best, q_plan, clock, source_vars, wire_vars>>

----
\* Initial state: ProtocolDataCollector::new, FlashLoanStrategy::new

InitTasks ==
    /\ write_locked = None
    /\ read_locked = {}
    /\ c_pc = [c \in Collectors |-> "idle"]
    /\ c_idx = [c \in Collectors |-> 1]
    /\ new_data = [c \in Collectors |-> EmptyMap]
    /\ c_fresh = [c \in Collectors |-> EmptyMap]
    /\ c_attempted = [c \in Collectors |-> {}]
    /\ c_outcome = [c \in Collectors |-> "none"]
    /\ c_result = [c \in Collectors |-> "none"]
    /\ c_cycles = 0
    /\ c_started = [c \in Collectors |-> 0]
    /\ pub_cycle = 0
    /\ r_pc = [r \in Readers |-> "idle"]
    /\ r_buf = [r \in Readers |-> EmptyMap]
    /\ r_snap = [r \in Readers |-> EmptyMap]

InitRequest ==
    /\ q_pc = "idle"
    /\ q_op = None
    /\ request = NoRequest
    /\ q_forced = None
    /\ q_seen = EmptyMap
    /\ q_best = NoResult
    /\ q_plan = NoResult
    /\ q_response = NoResult
    /\ q_executed = 0

InitSources ==
    /\ s_pc = "idle"
    /\ s_idx = 1
    /\ s_log = EmptyMap
    /\ s_out = EmptyMap
    /\ w_sent = <<>>
    /\ w_wire = <<>>
    /\ w_recv = <<>>

InitCollector ==
    /\ data_store = EmptyMap
    /\ last_pub = EmptyMap
    /\ InitTasks

\* The program as main.rs wires it: one background collector task and readers
Init ==
    /\ InitCollector
    /\ InitRequest
    /\ InitSources
    /\ strategy = "cheapest"
    /\ service_fee_bps = DefaultServiceFeeBps
    /\ c_limit = [tasks |-> {"bg"}, total |-> MaxCycles, numbered |-> TRUE]
    /\ api_values = {1}
    /\ clock = [steady |-> FALSE, last |-> EarliestReading]

CollectorStep(c) ==
    \/ StartCycle(c)
    \/ FetchOk(c)
    \/ FetchErr(c)
    \/ EndFetch(c)
    \/ UpdateNoop(c)
    \/ AcquireWrite(c)
    \/ Swap(c)

ReaderStep(r) ==
    \/ ReadAcquire(r)
    \/ ReadCopy(r)
    \/ ReadRelease(r)

Next ==
    \/ \E c \in Collectors : CollectorStep(c)
    \/ \E r \in Readers : ReaderStep(r)

Spec == Init /\ [][Next]_vars

\* The scheduling of the program: the ticker fires; every fetch returns (the
\* HTTP client has a timeout); synchronous code runs on; tokio's RwLock is
\* fair, so a task waiting for the write guard gets it; a reader finishes its
\* clone and drops its guard
Fairness ==
    /\ WF_vars(StartCycle("bg"))
    /\ WF_vars(FetchOk("bg") \/ FetchErr("bg"))
    /\ WF_vars(EndFetch("bg") \/ UpdateNoop("bg") \/ Swap("bg"))
    /\ SF_vars(AcquireWrite("bg"))
    /\ \A r \in Readers : WF_vars(ReadCopy(r) \/ ReadRelease(r))

SpecLive == Init /\ [][Next]_vars /\ Fairness

\* The program until main returns: the server ends and main aborts the
\* background task
NextAbort == Next \/ Abort("bg")

SpecAbort == Init /\ [][NextAbort]_vars

\* collect_all_data is public and the collector is Clone: a second task calls it
\* while the background task runs
NextOverlap == \E c \in Collectors : CollectorStep(c)

InitOverlap ==
    /\ InitCollector
    /\ InitRequest
    /\ InitSources
    /\ strategy = "cheapest"
    /\ service_fee_bps = DefaultServiceFeeBps
    /\ c_limit = [tasks |-> Collectors, total |-> MaxOverlapCycles, numbered |-> FALSE]
    /\ api_values = {}
    /\ clock = [steady |-> FALSE, last |-> EarliestReading]

SpecOverlap == InitOverlap /\ [][NextOverlap]_vars

\* The sources of one refresh cycle: the three fetches of collect_protocols_data
\* with every answer their requests can meet
InitSource ==
    /\ InitCollector
    /\ InitRequest
    /\ InitSources
    /\ strategy = "cheapest"
    /\ service_fee_bps = DefaultServiceFeeBps
    /\ c_limit = [tasks |-> {}, total |-> 0, numbered |-> FALSE]
    /\ api_values = {1}
    /\ clock = [steady |-> FALSE, last |-> EarliestReading]

NextSource ==
    \/ SourceCall
    \/ SourceApi
    \/ SourceOnchain
    \/ SourceReturn

SpecSource == InitSource /\ [][NextSource]_vars

\* Protocol values through serde_json and back
InitWire ==
    /\ InitCollector
    /\ InitRequest
    /\ InitSources
    /\ strategy = "cheapest"
    /\ service_fee_bps = DefaultServiceFeeBps
    /\ c_limit = [tasks |-> {}, total |-> 0, numbered |-> FALSE]
    /\ api_values = {}
    /\ clock = [steady |-> FALSE, last |-> EarliestReading]

NextWire == Serialize \/ Deserialize

SpecWire == InitWire /\ [][NextWire]_vars

\* The background collector alone, under a system clock that is never set back
InitSteadyClock ==
    /\ InitCollector
    /\ InitRequest
    /\ InitSources
    /\ strategy = "cheapest"
    /\ service_fee_bps = DefaultServiceFeeBps
    /\ c_limit = [tasks |-> {"bg"}, total |-> MaxCycles, numbered |-> TRUE]
    /\ api_values = {1}
    /\ clock = [steady |-> TRUE, last |-> EarliestReading]

NextSteadyClock == \E c \in Collectors : CollectorStep(c)

SpecSteadyClock == InitSteadyClock /\ [][NextSteadyClock]_vars

\* The request path over a cache the collector has filled: every map of entries
\* the sources can report (any subset of the protocols, any fee and liquidity)
CachedStores ==
    UNION {[keys -> (0..MaxFee) \X (0..MaxLiquidity)] : keys \in SUBSET Protocols}

InitStrategy ==
    /\ InitTasks
    /\ InitRequest
    /\ InitSources
    /\ c_limit = [tasks |-> {}, total |-> 0, numbered |-> FALSE]
    /\ api_values = {}
    /\ clock = [steady |-> FALSE, last |-> EarliestReading]
    /\ strategy \in Strategies
    /\ service_fee_bps = DefaultServiceFeeBps
    /\ \E cached \in CachedStores :
         data_store = [p \in DOMAIN cached |-> ProtocolData(p, cached[p][1], cached[p][2], 0)]
    /\ last_pub = data_store

NextStrategy ==
    \/ Call
    \/ FindBestProtocol
    \/ OverrideCheck
    \/ CalculateCost
    \/ ReturnResult

SpecStrategy == InitStrategy /\ [][NextStrategy]_vars

\* The fee arithmetic of calculate_cost and handle_flash_loan over a cache in
\* which every protocol has liquidity for every amount: fee rates from zero
\* over the defaults of the sources to multiples of 100%, amounts at both ends
\* of the u64 range and around the multiples of a stride
FeeRates ==
    {0} \cup {DefaultData(p).fee : p \in Protocols}
        \cup {k * BpsDenominator : k \in 1..MaxFeeMultiple}

ServiceFeeRates == {0, DefaultServiceFeeBps}

CostAmounts ==
    {a \in 0..(U64Modulus - 1) : a % AmountStride \in {0, 1, AmountStride - 1}}
        \cup {U64Modulus - 1}

InitCost ==
    /\ InitTasks
    /\ InitRequest
    /\ InitSources
    /\ c_limit = [tasks |-> {}, total |-> 0, numbered |-> FALSE]
    /\ api_values = {}
    /\ clock = [steady |-> FALSE, last |-> EarliestReading]
    /\ strategy = "cheapest"
    /\ service_fee_bps \in ServiceFeeRates
    /\ \E fees \in [Protocols -> FeeRates] :
         data_store = [p \in Protocols |-> ProtocolData(p, fees[p], U64Modulus - 1, 0)]
    /\ last_pub = data_store

CallCost == CallWith(CostAmounts, {"BestCost"}, CostOps)

NextCost ==
    \/ CallCost
    \/ FindBestProtocol
    \/ OverrideCheck
    \/ CalculateCost
    \/ HandleFlashLoanRespond
    \/ ReturnResult

SpecCost == InitCost /\ [][NextCost]_vars

\* The program serving requests while the background task refreshes the cache:
\* every operation of the request path, for an amount that only the default
\* liquidity of some protocols covers; the sources answer with their defaults
\* and the clock is never set back
ServeAmounts == {DefaultData("Bucket").liq + 1}

InitServe ==
    /\ InitCollector
    /\ InitRequest
    /\ InitSources
    /\ strategy = "cheapest"
    /\ service_fee_bps = DefaultServiceFeeBps
    /\ c_limit = [tasks |-> {"bg"}, total |-> MaxCycles, numbered |-> TRUE]
    /\ api_values = {}
    /\ clock = [steady |-> TRUE, last |-> EarliestReading]

CallServe == CallWith(ServeAmounts, {"BestCost"}, StrategyOps \cup CostOps)

NextServe ==
    \/ \E c \in Collectors : CollectorStep(c)
    \/ CallServe
    \/ FindBestProtocol
    \/ OverrideCheck
    \/ CalculateCost
    \/ HandleFlashLoanRespond
    \/ ReturnResult

SpecServe == InitServe /\ [][NextServe]_vars

\* Plans built while the background task refreshes the cache, with an API that
\* reports a fee of 100% and a liquidity that covers the amount requested, so
\* that the entry a plan is computed from shows in its total cost
RaceAmounts == {BpsDenominator}

InitRace ==
    /\ InitCollector
    /\ InitRequest
    /\ InitSources
    /\ strategy = "cheapest"
    /\ service_fee_bps = DefaultServiceFeeBps
    /\ c_limit = [tasks |-> {"bg"}, total |-> MaxCycles, numbered |-> TRUE]
    /\ api_values = {BpsDenominator}
    /\ clock = [steady |-> TRUE, last |-> LatestReading]

CallRace ==
    CallWith(RaceAmounts, {"BestCost"}, {"generate_execution_plan", "override_protocol"})

\* with the clock past the epoch the fetches of Bucket and Scallop cannot fail,
\* so no candidate is empty and update_data_store always swaps
NextRace ==
    \/ StartCycle("bg")
    \/ FetchOk("bg")
    \/ FetchErr("bg")
    \/ EndFetch("bg")
    \/ AcquireWrite("bg")
    \/ Swap("bg")
    \/ CallRace
    \/ FindBestProtocol
    \/ OverrideCheck
    \/ CalculateCost
    \/ ReturnResult

SpecRace == InitRace /\ [][NextRace]_vars

----
\* Properties of the collector

\* C1: every map get_all_protocol_data returns equals the one candidate that the
\* last swap before the read published (or the initial empty map); it never holds
\* entries of two publications.
SnapshotAtomicity ==
    \A r \in Readers :
        (r_pc[r] = "cloning" /\ CloneComplete(r)) => r_buf[r] = r_snap[r]

\* C1 witness: a reader completes the clone of a populated map while the refresh
\* cycle waits to publish a different candidate
SnapshotAtomicityWitness ==
    \E r \in Readers :
        /\ r_pc[r] = "cloning"
        /\ CloneComplete(r)
        /\ Cardinality(DOMAIN r_buf[r]) = 3
        /\ c_pc["bg"] = "update"
        /\ \A p \in DOMAIN r_buf[r] :
             p \in DOMAIN new_data["bg"] /\ new_data["bg"][p] # r_buf[r][p]

\* C2: once data_store holds an entry, no step leaves it empty.
NeverEmptiedOncePopulated ==
    [][data_store # EmptyMap => data_store' # EmptyMap]_vars

\* C2 witness: the store is populated and a cycle in which every fetch failed is
\* about to publish a candidate made of stale entries only
NeverEmptiedWitness ==
    \E c \in Collectors :
        /\ c_pc[c] = "writing"
        /\ c_fresh[c] = EmptyMap
        /\ c_attempted[c] = Protocols
        /\ data_store # EmptyMap

\* C3: when a cycle publishes, every protocol A it fetched is published with the
\* fetched entry, and every protocol B whose fetch failed and that has an entry
\* in the snapshot being replaced is published with exactly that entry.
StaleFallback ==
    [][\A c \in Collectors :
          (c_pc[c] = "writing" /\ c_pc'[c] = "idle") =>
              \A a \in DOMAIN c_fresh[c] :
                  \A b \in (c_attempted[c] \ DOMAIN c_fresh[c]) \cap DOMAIN data_store :
                      /\ a \in DOMAIN data_store'
                      /\ data_store'[a] = c_fresh[c][a]
                      /\ b \in DOMAIN data_store'
                      /\ data_store'[b] = data_store[b]]_vars

\* C3 witness: a cycle is about to publish a fresh entry for one protocol, that
\* differs from the cached one, next to the cached entry of a protocol whose
\* fetch failed
StaleFallbackWitness ==
    /\ c_pc["bg"] = "writing"
    /\ \E a \in DOMAIN c_fresh["bg"] :
         \E b \in (c_attempted["bg"] \ DOMAIN c_fresh["bg"]) \cap DOMAIN data_store :
            /\ a \in DOMAIN data_store
            /\ c_fresh["bg"][a] # data_store[a]
            /\ new_data["bg"][b] = data_store[b]

\* C4: the update_data_store step of a cycle whose candidate is empty leaves
\* data_store as it was.
EmptyCandidateLeavesStore ==
    [][\A c \in Collectors :
          (/\ c_pc[c] \in {"update", "writing"}
           /\ new_data[c] = EmptyMap
           /\ c_pc'[c] # c_pc[c]) => data_store' = data_store]_vars

\* C4 witness: a cycle with an empty candidate has ended as a no-op while the
\* store holds entries
EmptyCandidateWitness ==
    \E c \in Collectors : c_outcome[c] = "noop" /\ data_store # EmptyMap

\* C5: a cycle that ended with an empty candidate made collect_all_data return
\* an error.
EmptyCandidateReportsFailure ==
    \A c \in Collectors : c_outcome[c] = "noop" => c_result[c] = "Err"

\* C6: when the loop over the protocols has ended, all three protocols were
\* attempted and every protocol whose fetch succeeded is in the candidate with
\* the fetched entry.
FetchesIndependent ==
    \A c \in Collectors :
        c_pc[c] \in {"update", "writing"} =>
            /\ c_attempted[c] = Protocols
            /\ \A p \in DOMAIN c_fresh[c] :
                 p \in DOMAIN new_data[c] /\ new_data[c][p] = c_fresh[c][p]

\* C6 witness: the loop has ended, the first fetch failed and a later one succeeded
FetchesIndependentWitness ==
    /\ c_pc["bg"] = "update"
    /\ "Navi" \notin DOMAIN c_fresh["bg"]
    /\ "Bucket" \notin DOMAIN c_fresh["bg"]
    /\ "Scallop" \in DOMAIN new_data["bg"]
    /\ "Scallop" \in DOMAIN c_fresh["bg"]

----
\* Properties of the routing strategy

Selected == q_op \in {"find_best_protocol", "generate_execution_plan"} /\ q_best.ok

IsViable(p) == p \in DOMAIN q_seen /\ q_seen[p].available_liquidity >= request.amount

MinFeeAmongViable(b) ==
    /\ IsViable(b)
    /\ \A p \in DOMAIN q_seen : IsViable(p) => q_seen[p].fee_bps >= q_seen[b].fee_bps

MaxLiquidityInSnapshot(b) ==
    /\ IsViable(b)
    /\ \A p \in DOMAIN q_seen :
         q_seen[p].available_liquidity <= q_seen[b].available_liquidity

\* C7: with strategy "cheapest", the protocol find_best_protocol returns has
\* sufficient liquidity in the snapshot read, and no protocol of that snapshot
\* with sufficient liquidity has a smaller fee_bps.
CheapestSelection ==
    (strategy = "cheapest" /\ Selected) => MinFeeAmongViable(q_best.value)

\* C7 witness: the cheapest entry of the snapshot lacks the liquidity, and the
\* protocol returned is cheaper than another viable one
CheapestSelectionWitness ==
    /\ strategy = "cheapest"
    /\ Selected
    /\ q_op = "find_best_protocol"
    /\ request.amount > 0
    /\ \E p \in DOMAIN q_seen :
         IsViable(p) /\ q_seen[p].fee_bps > q_seen[q_best.value].fee_bps
    /\ \E p \in DOMAIN q_seen :
         ~IsViable(p) /\ q_seen[p].fee_bps <= q_seen[q_best.value].fee_bps

\* C8: with strategy "highest_liquidity", the protocol find_best_protocol
\* returns has sufficient liquidity and no protocol of the snapshot has more,
\* whatever the fees are.
HighestLiquiditySelection ==
    (strategy = "highest_liquidity" /\ Selected) => MaxLiquidityInSnapshot(q_best.value)

\* C8 witness: the protocol returned has a higher fee than another viable
\* protocol with less liquidity, and a third protocol lacks the liquidity
HighestLiquiditySelectionWitness ==
    /\ strategy = "highest_liquidity"
    /\ Selected
    /\ q_op = "find_best_protocol"
    /\ request.amount > 0
    /\ \E p \in DOMAIN q_seen :
         /\ IsViable(p)
         /\ q_seen[p].fee_bps < q_seen[q_best.value].fee_bps
         /\ q_seen[p].available_liquidity < q_seen[q_best.value].available_liquidity
    /\ \E p \in DOMAIN q_seen : ~IsViable(p)

\* C9: the policy follows the route_mode of the request: BestCost returns a
\* minimum-fee viable protocol and BestLiquidity a maximum-liquidity one, for
\* every configured strategy.
RouteModeDeterminesPolicy ==
    Selected =>
        /\ request.route_mode = "BestCost" => MinFeeAmongViable(q_best.value)
        /\ request.route_mode = "BestLiquidity" => MaxLiquidityInSnapshot(q_best.value)

\* C10: generate_execution_plan for an Explicit request naming a protocol that
\* is cached with sufficient liquidity returns a plan for that protocol.
ExplicitRouteReturnsRequested ==
    (/\ q_op = "generate_execution_plan"
     /\ q_pc = "done"
     /\ request.route_mode = "Explicit"
     /\ request.explicit_protocol # None
     /\ IsViable(request.explicit_protocol))
        => (q_plan.ok /\ q_plan.protocol = request.explicit_protocol)

\* C11: when every entry of the snapshot read has less liquidity than the
\* amount (an empty snapshot included), find_best_protocol returns an error and
\* generate_execution_plan and override_protocol return no plan, whatever the
\* route mode and the forced protocol are.
LiquidityExhaustion ==
    (q_pc = "done" /\ q_op \in StrategyOps /\ \A p \in DOMAIN q_seen : ~IsViable(p)) =>
        /\ ~q_best.ok
        /\ ~q_plan.ok

\* C11 witness: override_protocol has failed for an Explicit request over a cache
\* of three entries that all lack the liquidity
LiquidityExhaustionWitness ==
    /\ q_pc = "done"
    /\ q_op = "override_protocol"
    /\ request.route_mode = "Explicit"
    /\ DOMAIN q_seen = Protocols
    /\ \A p \in Protocols : ~IsViable(p) /\ q_seen[p].available_liquidity > 0
    /\ ~q_plan.ok

\* C12: a plan returned by override_protocol is a plan for the forced protocol,
\* and that protocol is cached with sufficient liquidity; otherwise no plan is
\* returned.
OverrideEnforcesLiquidity ==
    (q_pc = "done" /\ q_op = "override_protocol") =>
        /\ q_plan.ok => (IsViable(q_forced) /\ q_plan.protocol = q_forced)
        /\ ~IsViable(q_forced) => ~q_plan.ok

\* C12 witness: override_protocol has failed for a cached protocol that lacks
\* the liquidity while another protocol has it
OverrideEnforcesLiquidityWitness ==
    /\ q_pc = "done"
    /\ q_op = "override_protocol"
    /\ q_forced \in DOMAIN q_seen
    /\ ~IsViable(q_forced)
    /\ \E p \in DOMAIN q_seen : IsViable(p)
    /\ request.amount > 0
    /\ ~q_plan.ok

----
\* Properties of the fee arithmetic

\* the fee rate calculate_cost read for the protocol it was called with
CostFeeBps == q_seen[q_forced].fee_bps

\* amount + floor(amount * fee_bps / 10_000) in the integers
ExactCost == request.amount + ((request.amount * CostFeeBps) \div BpsDenominator)

CostReturned == q_pc = "done" /\ q_op = "calculate_cost"

\* C13: whenever amount + floor(amount * fee_bps / 10_000) fits the width of
\* u64, calculate_cost returns exactly that number, also when the product
\* amount * fee_bps does not fit the width.
FeeArithmetic ==
    (CostReturned /\ ExactCost < U64Modulus) =>
        (q_plan.ok /\ q_plan.total_cost = ExactCost)

\* C13 witness: calculate_cost has returned a cost that fits for a product that
\* does not fit and is not a multiple of 10_000
FeeArithmeticWitness ==
    /\ CostReturned
    /\ ExactCost < U64Modulus
    /\ request.amount * CostFeeBps >= U64Modulus
    /\ (request.amount * CostFeeBps) % BpsDenominator # 0
    /\ q_plan.ok
    /\ q_plan.total_cost > request.amount

\* floor(amount * service_fee_bps / 10_000) in the integers
ExactServiceFee == (request.amount * service_fee_bps) \div BpsDenominator

\* C14: the total cost calculate_cost returns is the amount plus the protocol
\* fee plus the service fee (stated for the amounts and rates for which that
\* sum fits the width of u64).
CostIncludesServiceFee ==
    (CostReturned /\ q_plan.ok /\ ExactCost + ExactServiceFee < U64Modulus) =>
        q_plan.total_cost = ExactCost + ExactServiceFee

\* C15: when the protocol fee or the amount plus the fee does not fit the width
\* of u64, calculate_cost returns an error: no wrapped or truncated total cost,
\* no panic.
CostOverflowIsError ==
    (CostReturned /\ ExactCost >= U64Modulus) =>
        (~q_plan.ok /\ q_plan.kind # "panic")

\* the fee rate of the protocol of the plan, in the snapshot the operation read
PlanFeeBps == q_seen[q_plan.protocol].fee_bps

\* C16: a plan returned by generate_execution_plan or override_protocol has
\* total_cost > amount whenever the fee rate of its protocol plus the service
\* fee rate is positive (stated for the requests with a positive amount and the
\* protocols with a positive fee rate).
PlanCostExceedsAmount ==
    (/\ q_pc = "done"
     /\ q_op \in {"generate_execution_plan", "override_protocol"}
     /\ q_plan.ok
     /\ request.amount > 0
     /\ PlanFeeBps > 0
     /\ PlanFeeBps + service_fee_bps > 0) => q_plan.total_cost > request.amount

\* the fee rate of the protocol the response names, in the snapshot read
ResponseFeeBps == q_seen[q_response.protocol_used].fee_bps

\* C17: the total fee of the response of handle_flash_loan is
\* floor(amount * (protocol fee rate + service fee rate) / 10_000) (stated for
\* the requests whose amount plus fees fits the width of u64).
TotalFeeOfSummedRates ==
    (/\ q_pc = "done"
     /\ q_op = "handle_flash_loan"
     /\ q_response.ok
     /\ request.amount + ((request.amount * ResponseFeeBps) \div BpsDenominator)
            + ExactServiceFee < U64Modulus) =>
        q_response.total_fee =
            (request.amount * (ResponseFeeBps + service_fee_bps)) \div BpsDenominator

----
\* Properties of the selection

\* the results find_best_protocol can return for the snapshot read, the request
\* and a strategy, over the orders in which the map can be iterated
SelectionResults(strat) ==
    {find_best_protocol(q_seen, order, request, strat) :
        order \in IterationOrders(DOMAIN q_seen)}

FindReturned == q_pc = "done" /\ q_op = "find_best_protocol"

\* C18: the protocol find_best_protocol returns is a function of the cache
\* contents, the configuration and the request: it is the one every iteration
\* order of the map yields, ties included (stated for the requests with a
\* positive amount).
SelectionDeterministic ==
    (FindReturned /\ request.amount > 0) => SelectionResults(strategy) = {q_best}

\* C19: with a strategy other than "cheapest" and "highest_liquidity",
\* find_best_protocol returns a result that strategy "cheapest" returns on the
\* same snapshot and request: the same protocol, or the same failure.
UnknownStrategyIsCheapest ==
    (FindReturned /\ strategy \notin {"cheapest", "highest_liquidity"}) =>
        q_best \in SelectionResults("cheapest")

\* C19 witness: under an unknown strategy a protocol was returned while a
\* dearer protocol with more liquidity was viable
UnknownStrategyIsCheapestWitness ==
    /\ FindReturned
    /\ strategy = "balanced"
    /\ q_best.ok
    /\ \E p \in DOMAIN q_seen :
         /\ IsViable(p)
         /\ q_seen[p].fee_bps > q_seen[q_best.value].fee_bps
         /\ q_seen[p].available_liquidity > q_seen[q_best.value].available_liquidity

\* C20: generate_execution_plan returns an error, and no plan, for a request
\* with amount 0.
ZeroAmountRejected ==
    (q_pc = "done" /\ q_op = "generate_execution_plan" /\ request.amount = 0) =>
        ~q_plan.ok

\* C21: generate_execution_plan returns an error, and no plan, for a request
\* whose route_mode is Explicit while explicit_protocol is None, whatever the
\* cache contains (stated for the requests with a positive amount).
ExplicitWithoutProtocolRejected ==
    (/\ q_pc = "done"
     /\ q_op = "generate_execution_plan"
     /\ request.route_mode = "Explicit"
     /\ request.explicit_protocol = None
     /\ request.amount > 0) => ~q_plan.ok

\* C22: after a call of collect_all_data that returned Ok, the cache holds an
\* entry for each of Navi, Bucket and Scallop (stated for the calls that
\* published their candidate).
CollectOkFillsCache ==
    \A c \in Collectors :
        (c_pc[c] = "idle" /\ c_result[c] = "Ok" /\ c_outcome[c] = "published") =>
            DOMAIN data_store = Protocols

\* C30: generate_execution_plan fails fast: calculate_cost is reached only with
\* the protocol find_best_protocol returned; when find_best_protocol returned an
\* error, that error is the result; a plan that is returned is for the protocol
\* find_best_protocol returned.
PlanFailsFast ==
    q_op = "generate_execution_plan" =>
        /\ q_pc = "cost" => q_best.ok
        /\ (q_pc = "done" /\ ~q_best.ok) => q_plan = q_best
        /\ (q_pc = "done" /\ q_plan.ok) => (q_best.ok /\ q_plan.protocol = q_best.value)

\* C30 witness: generate_execution_plan has returned the error of
\* find_best_protocol on a cache that is not empty
PlanFailsFastWitness ==
    /\ q_op = "generate_execution_plan"
    /\ q_pc = "done"
    /\ ~q_best.ok
    /\ q_plan = q_best
    /\ data_store # EmptyMap

\* C25: refresh cycles do not overlap: at most one task is inside
\* collect_all_data at any moment, and a cycle that is running is the one
\* started last, every cycle started before it having returned.
CyclesNeverOverlap ==
    /\ Cardinality({c \in Collectors : c_pc[c] # "idle"}) <= 1
    /\ \A c \in Collectors : c_pc[c] # "idle" => c_started[c] = c_cycles

\* C25 witness: the second cycle is fetching after the first one has returned
CyclesNeverOverlapWitness ==
    /\ c_pc["bg"] = "fetch"
    /\ c_started["bg"] = 2
    /\ c_outcome["bg"] # "none"

\* C24: snapshots are published in the order their cycles started: the cycle
\* that built the snapshot in the cache never gives way to a cycle that started
\* earlier, so of two successive reads the second never returns a snapshot of
\* an earlier cycle than the first.
PublishedInStartOrder == [][pub_cycle' >= pub_cycle]_vars

\* C24 witness: the second cycle holds the write guard and is about to replace
\* the snapshot of the first
PublishedInStartOrderWitness ==
    /\ c_pc["bg"] = "writing"
    /\ c_started["bg"] = 2
    /\ pub_cycle = 1

\* C23: while the clock is never set back, the last_updated of a protocol's
\* entry never decreases from one published snapshot to the next, whatever the
\* refresh cycles do (fresh entries, stale entries, no-op).
LastUpdatedNeverDecreases ==
    [][\A p \in DOMAIN data_store \cap DOMAIN data_store' :
          data_store'[p].last_updated >= data_store[p].last_updated]_vars

\* C23 witness: a cycle is about to publish a candidate with a later stamp for
\* one cached protocol and the stale entry of another
LastUpdatedNeverDecreasesWitness ==
    /\ c_pc["bg"] = "writing"
    /\ \E p \in DOMAIN data_store \cap DOMAIN c_fresh["bg"] :
         new_data["bg"][p].last_updated > data_store[p].last_updated
    /\ \E p \in DOMAIN data_store \cap DOMAIN new_data["bg"] :
         p \notin DOMAIN c_fresh["bg"]

\* C28: a refresh cycle holds the write guard of the cache only in the step
\* that replaces the snapshot: while a cycle is fetching, no write guard is
\* held, and every reader can take its next step (get its read guard, clone,
\* return) without waiting for a fetch to finish.
WriteGuardOnlyForSwap ==
    /\ \A c \in Collectors : write_locked = c => c_pc[c] = "writing"
    /\ (\E c \in Collectors : c_pc[c] = "fetch") =>
           /\ write_locked = None
           /\ \A r \in Readers : ENABLED ReaderStep(r)

\* C28 witness: in the middle of the fetches of a cycle a reader holds a read
\* guard and has cloned the whole cache
WriteGuardOnlyForSwapWitness ==
    /\ c_pc["bg"] = "fetch"
    /\ c_idx["bg"] = 2
    /\ \E r \in Readers : r_pc[r] = "cloning" /\ CloneComplete(r)
    /\ data_store # EmptyMap

\* C29: when a refresh cycle is cancelled before its update_data_store write,
\* the cache is exactly the snapshot last published, and a cycle that started
\* before the cancelled one published it: the cancelled cycle changed no entry.
AbandonedCycleChangesNothing ==
    \A c \in Collectors :
        (c_pc[c] = "aborted" /\ c_started[c] # 0) =>
            (data_store = last_pub /\ pub_cycle < c_started[c])

\* C29 witness: the second cycle was cancelled after its three fetches, with a
\* fresh entry the cache does not hold
AbandonedCycleChangesNothingWitness ==
    /\ c_pc["bg"] = "aborted"
    /\ c_started["bg"] = 2
    /\ pub_cycle = 1
    /\ c_attempted["bg"] = Protocols
    /\ \E p \in DOMAIN c_fresh["bg"] \cap DOMAIN data_store :
         c_fresh["bg"][p] # data_store[p]

\* C26: a refresh failure does not end the background loop: a cycle in which a
\* fetch has failed is followed by another cycle (for every cycle but the last
\* one the bound of the run allows), under the fairness of the timer and of
\* the tasks.
LoopSurvivesFailure ==
    \A n \in 1..(MaxCycles - 1) :
        (c_cycles = n /\ c_pc["bg"] = "fetch" /\ c_attempted["bg"] # DOMAIN c_fresh["bg"])
            ~> (c_cycles = n + 1)

\* C26 witness: the second cycle is fetching after a first cycle in which every
\* fetch failed and nothing was published
LoopSurvivesFailureWitness ==
    /\ c_cycles = 2
    /\ c_pc["bg"] = "fetch"
    /\ c_outcome["bg"] = "noop"

\* C27: the request path never changes the cache: no step of
\* find_best_protocol, calculate_cost, generate_execution_plan,
\* override_protocol or handle_flash_loan changes data_store, whether it ends
\* in a result or in an error; the map changes only in the step of
\* update_data_store that replaces it.
RequestPathLeavesCache ==
    [][/\ q_pc' # q_pc => data_store' = data_store
       /\ data_store' # data_store =>
              \E c \in Collectors : c_pc[c] = "writing" /\ c_pc'[c] # "writing"]_vars

\* C27 witness: override_protocol has returned an error for a protocol whose
\* entry is in the cache, and the cache is the snapshot last published
RequestPathLeavesCacheWitness ==
    /\ q_pc = "done"
    /\ q_op = "override_protocol"
    /\ ~q_plan.ok
    /\ q_forced \in DOMAIN data_store
    /\ data_store = last_pub
    /\ pub_cycle > 0

\* C31: calculate_cost(request, p) returns an error, and no cost, when the
\* cache has no entry for p at the moment it reads the cache, and returns a
\* cost when the cache has one, whatever the liquidity of the entry (the
\* amounts and fees of this specification do not overflow).
CostNeedsOnlyTheEntry ==
    (q_pc = "done" /\ q_op = "calculate_cost") =>
        /\ q_forced \notin DOMAIN q_seen => q_plan = Failure("no_data")
        /\ q_forced \in DOMAIN q_seen => q_plan.ok

\* C31 witness: calculate_cost has returned a cost for a protocol whose
\* liquidity is below the amount
CostNeedsOnlyTheEntryWitness ==
    /\ q_pc = "done"
    /\ q_op = "calculate_cost"
    /\ q_forced \in DOMAIN q_seen
    /\ q_seen[q_forced].available_liquidity < request.amount
    /\ q_plan.ok

\* C32: handle_flash_loan calls the executor at most once for a request, and
\* only with a plan: when the plan could not be built, the executor is not
\* called and the request ends with an error; when the execution fails, the
\* request ends with an error after that one call.
ExecutorAtMostOnce ==
    q_op = "handle_flash_loan" =>
        /\ q_executed <= 1
        /\ q_pc # "done" => q_executed = 0
        /\ (q_pc = "done" /\ ~q_plan.ok) =>
               (q_executed = 0 /\ q_response = Failure("BAD_REQUEST"))
        /\ (q_pc = "done" /\ q_plan.ok) => q_executed = 1
        /\ (q_pc = "done" /\ q_plan.ok /\ ~execute_flash_loan(q_plan).ok) =>
               q_response = Failure("INTERNAL_SERVER_ERROR")

\* C32 witness: the execution of a plan has failed and the request has ended
\* with an error after one call of the executor
ExecutorAtMostOnceWitness ==
    /\ q_op = "handle_flash_loan"
    /\ q_pc = "done"
    /\ q_plan.ok
    /\ ~execute_flash_loan(q_plan).ok
    /\ q_executed = 1
    /\ ~q_response.ok

\* C33: the fetch of a protocol makes one API attempt, and at most one on-chain
\* attempt after it; the on-chain attempt is made exactly when the API attempt
\* failed, whatever the cause of the failure (the request was not answered, or
\* the body was not JSON); the fetch returns an error only when both attempts
\* returned one.
SingleFallbackChain ==
    \A p \in DOMAIN s_out :
        LET log == s_log[p]
        IN  /\ Len(log) \in {1, 2}
            /\ log[1].stage = "api"
            /\ Len(log) = 2 => log[2].stage = "onchain"
            /\ Len(log) = 2 <=> log[1].response # "ok"
            /\ ~s_out[p].ok => (Len(log) = 2 /\ ~log[1].ok /\ ~log[2].ok)

\* C34: a Protocol value that is serialised and then deserialised is the same
\* variant, and its numeric discriminant is the fixed one (Navi 0, Bucket 1,
\* Scallop 2) before and after the round trip.
ProtocolRoundTrip ==
    \A i \in 1..Len(w_recv) :
        /\ w_recv[i] = Ok(w_sent[i])
        /\ Discriminant(w_recv[i].value) = Discriminant(w_sent[i])
        /\ w_sent[i] = "Navi" => Discriminant(w_recv[i].value) = 0
        /\ w_sent[i] = "Bucket" => Discriminant(w_recv[i].value) = 1
        /\ w_sent[i] = "Scallop" => Discriminant(w_recv[i].value) = 2

\* C34 witness: each of the three variants has gone through the round trip
ProtocolRoundTripWitness ==
    /\ w_wire = <<>>
    /\ {w_recv[i].value : i \in 1..Len(w_recv)} = Protocols

\* the plan is what the operation returns when every step of it reads the one
\* snapshot: the protocol has an entry with the liquidity the request needs, it
\* is the forced protocol or one the selection can return, and the total cost
\* is the cost calculate_cost computes from that entry
PlanFromSnapshot(snapshot, plan, req, op, forced) ==
    /\ plan.protocol \in DOMAIN snapshot
    /\ snapshot[plan.protocol].available_liquidity >= req.amount
    /\ IF op = "override_protocol" THEN plan.protocol = forced
       ELSE \E order \in IterationOrders(DOMAIN snapshot) :
                find_best_protocol(snapshot, order, req, strategy) = Ok(plan.protocol)
    /\ Ok(plan.total_cost) \in calculate_cost(Some(snapshot[plan.protocol]), req)

\* C35: a plan that generate_execution_plan or override_protocol returns is
\* consistent with a single snapshot of the cache, also when a refresh publishes
\* between the steps of the operation: with the snapshot the operation read
\* first or with the one it read last (no other snapshot existed in between
\* when at most the second cycle has published)
PlanFromSingleSnapshot ==
    [][(/\ q_op \in {"generate_execution_plan", "override_protocol"}
        /\ q_pc = "cost"
        /\ q_pc' = "done"
        /\ q_plan'.ok
        /\ pub_cycle <= 2)
       => \E snapshot \in {q_seen, data_store} :
              PlanFromSnapshot(snapshot, q_plan', request, q_op, q_forced)]_vars

\* C36: the set of protocols in the cache never shrinks: a protocol that has
\* an entry in data_store has one after every step, whatever fetches fail and
\* also when two collect_all_data cycles overlap
CachedProtocolsNeverShrink ==
    [][DOMAIN data_store \subseteq DOMAIN data_store']_vars

\* the candidate of a cycle whose three attempts are folded in: the fetched
\* entry of every protocol whose fetch succeeded, the entry of the store for
\* every other protocol that has one, and no entry for the rest
FoldedCandidate(c) ==
    [p \in DOMAIN c_fresh[c] \cup DOMAIN data_store |->
        IF p \in DOMAIN c_fresh[c] THEN c_fresh[c][p] ELSE data_store[p]]

\* C37: the store changes only in the swap of a cycle that has attempted all
\* three protocols, and what the swap publishes is the candidate with the
\* outcome of every attempt folded in (fresh entry, stale entry or omission):
\* readers never see a snapshot built from a prefix of the protocol list
PublishAfterAllAttempts ==
    [][data_store' # data_store =>
          \E c \in Collectors :
              /\ c_pc[c] = "writing"
              /\ c_pc'[c] # "writing"
              /\ c_attempted[c] = Protocols
              /\ data_store' = FoldedCandidate(c)]_vars

\* C37 witness: the second cycle has published a snapshot in which one protocol
\* is omitted and the entries of the two others carry different timestamps
PublishAfterAllAttemptsWitness ==
    /\ pub_cycle = 2
    /\ c_outcome["bg"] = "published"
    /\ DOMAIN data_store = {"Navi", "Bucket"}
    /\ data_store["Navi"].last_updated < data_store["Bucket"].last_updated

\* C38: every plan that generate_execution_plan or override_protocol returns
\* passes validate_execution_plan, so the executor never rejects a request
\* whose planning succeeded (stated for the requests with a positive amount and
\* the protocols with a positive fee rate)
PlansPassValidation ==
    (/\ q_pc = "done"
     /\ q_op \in {"generate_execution_plan", "override_protocol"}
     /\ q_plan.ok
     /\ request.amount > 0
     /\ PlanFeeBps > 0) => validate_execution_plan(q_plan).ok

\* C39: every entry of the cache is stored under its own protocol, whether it
\* was fetched in the cycle that published it or carried over as a stale entry
EntriesUnderOwnKey ==
    \A k \in DOMAIN data_store : data_store[k].protocol = k

\* C39 witness: the second cycle has published all three protocols, the Navi
\* entry with an earlier timestamp than the Scallop entry
EntriesUnderOwnKeyWitness ==
    /\ pub_cycle = 2
    /\ c_outcome["bg"] = "published"
    /\ DOMAIN data_store = Protocols
    /\ data_store["Navi"].last_updated < data_store["Scallop"].last_updated

====
